---- MODULE Spec2Model ----
(***************************************************************************)
(* Model of the Celestron AUX packet codec (Aux::Packet) and of the        *)
(* command exchange (Aux::Communicator) of                                 *)
(* libindi/drivers/focuser/celestronauxpacket.cpp.                         *)
(*                                                                         *)
(* Two specifications share the variables:                                 *)
(*   Spec       the exchange: sendCommand / sendPacket / readPacket run    *)
(*              step by step against a transport that may fail;            *)
(*   CodecSpec  the codec: Packet(), FillBuffer and Parse applied to       *)
(*              frames and buffers drawn from bounded sets.                *)
(***************************************************************************)
EXTENDS Integers, Sequences, FiniteSets, TLC

(***************************************************************************)
(* Bounds of the model                                                     *)
(***************************************************************************)
\* longest payload that is enumerated byte by byte (codec)
MaxLen == 2
\* payloads up to WireMaxPayload + Oversize bytes are encoded
Oversize == 1
\* longest raw buffer handed to Parse (codec)
MaxRaw == 6
\* most non-header bytes in front of a reply frame (exchange)
MaxGarbage == 1

(***************************************************************************)
(* Program constants                                                       *)
(***************************************************************************)
\* Packet::AUX_HDR, 0x3B
AUX_HDR == 59
\* Target values (enum Target of celestronauxpacket.h)
APP == 32
NEX_REMOTE == 34
FOCUSER == 18
ALT == 17
\* Command values (enum Command of celestronauxpacket.h)
MC_GET_POSITION == 1
GET_VER == 254
\* the attempt budget of sendCommand: while (num_tries++ < 3)
MaxTries == 3

Commands == {MC_GET_POSITION, GET_VER}

\* the largest payload whose length + 3 still fits the one length byte
WireMaxPayload == 255 - 3

\* a field of a default-constructed Packet that was never assigned
Unset == -1

(***************************************************************************)
(* Packet: the codec                                                       *)
(***************************************************************************)

\* Packet::Packet(source, destination, command, data); the member length
\* is a uint32_t, which data.size() + 3 never wraps for a buffer that the
\* transport can carry
Packet(src, dst, command, bytes) ==
    [command |-> command, source |-> src, destination |-> dst,
     data |-> bytes, length |-> Len(bytes) + 3]

\* Packet::Packet(), no member is assigned
DefaultPacket ==
    [command |-> Unset, source |-> Unset, destination |-> Unset,
     data |-> <<>>, length |-> Unset]

RECURSIVE SumBytes(_, _, _)
\* the loop of Packet::checksum: cs += packet[i] for the 0-based i in lo..hi
\* (the int cs cannot overflow; the range is summed by halves to keep the
\* evaluation shallow)
SumBytes(packet, lo, hi) ==
    IF lo > hi THEN 0
    ELSE IF lo = hi THEN packet[lo + 1]
    ELSE LET mid == (lo + hi) \div 2
         IN  SumBytes(packet, lo, mid) + SumBytes(packet, mid + 1, hi)

\* a plausible slip: the loop stops one byte early (i < packet[1] + 1)
checksum_short(packet) ==
    (256 - (SumBytes(packet, 1, packet[2]) % 256)) % 256

\* a plausible slip: the loop also takes in the final byte
\* (i < packet[1] + 3)
checksum_long(packet) ==
    (256 - (SumBytes(packet, 1, packet[2] + 2) % 256)) % 256

\* a plausible slip: the sum is returned without the negation (cs & 0xff)
checksum_noneg(packet) ==
    SumBytes(packet, 1, packet[2] + 1) % 256

\* Packet::checksum: for (i = 1; i < packet[1] + 2; i++) cs += packet[i];
\* return (-cs & 0xff)
checksum(packet) ==
    (256 - (SumBytes(packet, 1, packet[2] + 1) % 256)) % 256

\* a plausible slip: the stored length byte is the payload size + 2
LengthByte_off(length) == (length + 255) % 256

\* buff[1] = length: the uint32_t length stored into one uint8_t
LengthByte(length) == length % 256

\* buff[5 + i] = data[i]: the 0-based offset i of the buffer, 5 <= i
PayloadByte(pkt, i) ==
    IF i >= 5 /\ i - 4 <= Len(pkt.data) THEN pkt.data[i - 4] ELSE 0

\* Packet::FillBuffer up to, not including, buff.back() = checksum(buff):
\* resize() zero-fills, so the final byte is still 0
FillBody(pkt) ==
    [i \in 1..(pkt.length + 3) |->
        CASE i = 1 -> AUX_HDR
          [] i = 2 -> LengthByte(pkt.length)
          [] i = 3 -> pkt.source
          [] i = 4 -> pkt.destination
          [] i = 5 -> pkt.command
          [] OTHER -> PayloadByte(pkt, i - 1)]

\* a plausible slip: the checksum is taken before the payload is copied
FillBuffer_early(pkt) ==
    LET body == FillBody(pkt)
        blank == FillBody([pkt EXCEPT
                              !.data = [i \in 1..Len(pkt.data) |-> 0]])
    IN  [body EXCEPT ![Len(body)] = checksum(blank)]

\* Packet::FillBuffer
FillBuffer(pkt) ==
    LET body == FillBody(pkt)
    IN  [body EXCEPT ![Len(body)] = checksum(body)]

\* a plausible slip: the payload is sliced from packet.begin() + 4
ParseData_off(packet) == SubSeq(packet, 5, Len(packet) - 1)

\* data = buffer(packet.begin() + 5, packet.end() - 1)
ParseData(packet) == SubSeq(packet, 6, Len(packet) - 1)

\* a plausible slip: the header test is made after the length test
ParseKind_swapped(packet) ==
    IF Len(packet) < 6 THEN "TooShort"
    ELSE IF Len(packet) # packet[2] + 3 THEN "LengthMismatch"
    ELSE IF packet[1] # AUX_HDR THEN "BadHeader"
    ELSE IF checksum(packet) # packet[packet[2] + 3] THEN "ChecksumMismatch"
    ELSE "Valid"

\* the branch Packet::Parse leaves by
ParseKind(packet) ==
    IF Len(packet) < 6 THEN "TooShort"
    ELSE IF packet[1] # AUX_HDR THEN "BadHeader"
    ELSE IF Len(packet) # packet[2] + 3 THEN "LengthMismatch"
    ELSE IF checksum(packet) # packet[packet[2] + 3] THEN "ChecksumMismatch"
    ELSE "Valid"

\* Packet::Parse on the Packet pkt: the return value, the branch taken,
\* the members as they are left, and the locals cs and cb where computed
Parse(pkt, packet) ==
    LET kind == ParseKind(packet)
    IN  IF kind \in {"TooShort", "BadHeader"}
        THEN [ok |-> FALSE, kind |-> kind, pkt |-> pkt,
              cs |-> Unset, cb |-> Unset]
        ELSE IF kind = "LengthMismatch"
        THEN [ok |-> FALSE, kind |-> kind,
              pkt |-> [pkt EXCEPT !.length = packet[2]],
              cs |-> Unset, cb |-> Unset]
        ELSE [ok |-> (kind = "Valid"), kind |-> kind,
              pkt |-> [length |-> packet[2], source |-> packet[3],
                       destination |-> packet[4], command |-> packet[5],
                       data |-> ParseData(packet)],
              cs |-> checksum(packet), cb |-> packet[packet[2] + 3]]

(***************************************************************************)
(* State                                                                   *)
(***************************************************************************)
VARIABLES
    \* Communicator
    source,      \* Communicator::source, fixed by the constructor
    charSigned,  \* whether plain char is signed in this build
    \* one call of sendCommand
    pc,          \* position: idle, loop, send, write, hdr, len, body, check, done
    dest,        \* argument dest
    cmd,         \* argument cmd
    data,        \* argument data
    reply,       \* the caller's buffer, argument reply
    reply0,      \* history: the caller's buffer when the call was made
    num_tries,   \* local num_tries
    txbuff,      \* sendPacket: local txbuff
    rxbuf,       \* readPacket: rxbuf[0], as the raw byte
    len,         \* readPacket: local len
    packet,      \* readPacket: local packet
    pkt,         \* sendCommand: local pkt
    ret,         \* what sendCommand returned: "true", "false", "none" while it runs
    \* transport
    device,      \* the answers the device behind the port may give
    rx,          \* bytes the port delivers to the reads that follow
    nWrites,     \* history: calls of tty_write in this call
    nReads,      \* history: calls of tty_read in this call
    log,         \* history: how each finished attempt of this call ended
    lastOp,      \* history: the last transport operation of this call
    nFlush,      \* history: calls of tcflush in this call
    nReadPackets,\* history: calls of readPacket in this call
    aReads,      \* history: calls of tty_read in this attempt
    wrote,       \* history: the buffers handed to tty_write in this call
    stream,      \* history: what the port held after this attempt's write
    dropped,     \* history: how many pending bytes the last tcflush discarded
    \* codec
    frame,       \* the Packet under construction
    buff,        \* the wire buffer
    parsed,      \* the result of Parse
    cstep,       \* new, built, filled, tampered, raw, parsed
    origin,      \* where the parsed buffer came from: filled, tampered, raw
    tamperAt     \* 0-based offset of the replaced byte, Unset if none

exvars == <<source, charSigned, pc, dest, cmd, data, reply, reply0, num_tries,
            txbuff, rxbuf, len, packet, pkt, ret, rx, nWrites, nReads, log,
            lastOp, nFlush, nReadPackets, aReads, wrote, stream, dropped,
            device>>
covars == <<frame, buff, parsed, cstep, origin, tamperAt>>
vars == <<exvars, covars>>

NoParse == [ok |-> FALSE, kind |-> "none", pkt |-> DefaultPacket,
            cs |-> Unset, cb |-> Unset]

CodecIdle ==
    /\ frame = DefaultPacket
    /\ buff = <<>>
    /\ parsed = NoParse
    /\ cstep = "new"
    /\ origin = "none"
    /\ tamperAt = Unset

(***************************************************************************)
(* The transport and the device behind it                                  *)
(***************************************************************************)
\* the sources a Communicator is constructed with: Communicator() gives
\* NEX_REMOTE, Communicator(Target) here APP or NEX_REMOTE
Sources == {APP, NEX_REMOTE}
\* the endpoints commands are sent to
Dests == {FOCUSER, ALT}
\* the calls made: dest, cmd, data
Calls ==
    {<<FOCUSER, MC_GET_POSITION, <<>>>>,
     <<FOCUSER, GET_VER, <<5>>>>,
     <<ALT, MC_GET_POSITION, <<5>>>>}
\* the contents of the caller's reply buffer before the call
CallerReplies == {<<9>>}
\* a reply payload that makes the length byte 0x80
BigPayload == [i \in 1..125 |-> 1]

\* the frames a device on the bus may answer with
ReplyFrames ==
    {FillBuffer(Packet(s, d, c, <<7>>)) :
        s \in Dests, d \in Sources, c \in Commands}
    \cup {FillBuffer(Packet(FOCUSER, APP, MC_GET_POSITION, <<>>)),
          FillBuffer(Packet(FOCUSER, APP, MC_GET_POSITION, BigPayload))}

\* the frames that are also delivered damaged or out of step
SampleFrames ==
    {FillBuffer(Packet(FOCUSER, d, MC_GET_POSITION, <<7>>)) : d \in Sources}

\* the frame with its checksum byte off by one
BadSum(f) == [f EXCEPT ![Len(f)] = (f[Len(f)] + 1) % 256]

\* k bytes that are not the header byte
Garbage(k) == [i \in 1..k |-> 0]

\* what the port delivers after a write
Streams ==
    ReplyFrames
    \cup {Garbage(k) \o f : k \in 1..MaxGarbage, f \in SampleFrames}
    \cup {BadSum(f) : f \in SampleFrames}
    \cup {f \o <<AUX_HDR>> : f \in SampleFrames}
    \cup {SubSeq(f, 1, Len(f) - 1) : f \in SampleFrames}
    \cup {<<AUX_HDR, 2, FOCUSER, APP, MC_GET_POSITION>>, <<AUX_HDR>>, <<>>}

\* int len = rxbuf[0]: a plain char converted to int
CharToInt(b) == IF charSigned /\ b >= 128 THEN b - 256 ELSE b

\* one finished attempt, as sendCommand saw it
Entry(kind, p) ==
    [rp |-> kind, command |-> p.command, destination |-> p.destination,
     source |-> p.source]

Last(s) == s[Len(s)]

(***************************************************************************)
(* Communicator: the exchange                                              *)
(***************************************************************************)
Init ==
    /\ source \in Sources
    /\ charSigned \in BOOLEAN
    /\ device = Streams
    /\ pc = "idle"
    /\ dest = FOCUSER
    /\ cmd = MC_GET_POSITION
    /\ data = <<>>
    /\ reply = <<>>
    /\ reply0 = <<>>
    /\ num_tries = 0
    /\ txbuff = <<>>
    /\ rxbuf = 0
    /\ len = 0
    /\ packet = <<>>
    /\ pkt = DefaultPacket
    /\ ret = "none"
    /\ rx = <<>>
    /\ nWrites = 0
    /\ nReads = 0
    /\ log = <<>>
    /\ lastOp = "none"
    /\ nFlush = 0
    /\ nReadPackets = 0
    /\ aReads = 0
    /\ wrote = {}
    /\ stream = <<>>
    /\ dropped = 0
    /\ CodecIdle

\* the locals of one loop iteration go out of scope
ScopeExit ==
    /\ txbuff' = <<>>
    /\ rxbuf' = 0
    /\ len' = 0
    /\ packet' = <<>>
    /\ pkt' = DefaultPacket

\* sendCommand is called: int num_tries = 0
Call ==
    /\ pc \in {"idle", "done"}
    /\ \E c \in Calls, r \in CallerReplies :
        /\ dest' = c[1]
        /\ cmd' = c[2]
        /\ data' = c[3]
        /\ reply' = r
        /\ reply0' = r
    /\ num_tries' = 0
    /\ ret' = "none"
    /\ nWrites' = 0
    /\ nReads' = 0
    /\ log' = <<>>
    /\ ScopeExit
    /\ pc' = "loop"
    /\ UNCHANGED <<source, charSigned, rx, covars>>
    /\ lastOp' = "none"
    /\ nFlush' = 0
    /\ nReadPackets' = 0
    /\ aReads' = 0
    /\ wrote' = {}
    /\ stream' = <<>>
    /\ dropped' = 0
    /\ UNCHANGED device

\* a plausible slip: the attempt is not counted (while (num_tries < 3))
LoopEnter_nocount ==
    /\ pc = "loop"
    /\ num_tries < MaxTries
    /\ pc' = "send"
    /\ UNCHANGED <<source, charSigned, dest, cmd, data, reply, reply0, txbuff,
                   rxbuf, len, packet, pkt, ret, rx, nWrites, nReads, log,
                   num_tries, lastOp, nFlush, nReadPackets, aReads, wrote,
                   stream, dropped, covars>>
    /\ UNCHANGED device

\* while (num_tries++ < 3): the body is entered
LoopEnter ==
    /\ pc = "loop"
    /\ num_tries < MaxTries
    /\ num_tries' = num_tries + 1
    /\ pc' = "send"
    /\ UNCHANGED <<source, charSigned, dest, cmd, data, reply, reply0, txbuff,
                   rxbuf, len, packet, pkt, ret, rx, nWrites, nReads, log,
                   covars>>
    /\ UNCHANGED <<lastOp, nFlush, nReadPackets, aReads, wrote, stream>>
    /\ UNCHANGED dropped
    /\ UNCHANGED device

\* while (num_tries++ < 3) is false: return false
LoopExit ==
    /\ pc = "loop"
    /\ ~(num_tries < MaxTries)
    /\ num_tries' = num_tries + 1
    /\ ret' = "false"
    /\ pc' = "done"
    /\ UNCHANGED <<source, charSigned, dest, cmd, data, reply, reply0, txbuff,
                   rxbuf, len, packet, pkt, rx, nWrites, nReads, log, covars>>
    /\ UNCHANGED <<lastOp, nFlush, nReadPackets, aReads, wrote, stream>>
    /\ UNCHANGED dropped
    /\ UNCHANGED device

\* a plausible slip: the arguments of the Packet are swapped,
\* Packet pkt(dest, source, cmd, data)
SendFlush_swapped ==
    /\ pc = "send"
    /\ txbuff' = FillBuffer(Packet(dest, source, cmd, data))
    /\ rx' = <<>>
    /\ pc' = "write"
    /\ lastOp' = "flush"
    /\ nFlush' = nFlush + 1
    /\ aReads' = 0
    /\ stream' = <<>>
    /\ dropped' = Len(rx)
    /\ UNCHANGED <<source, charSigned, dest, cmd, data, reply, reply0,
                   num_tries, rxbuf, len, packet, pkt, ret, nWrites, nReads,
                   log, nReadPackets, wrote, device, covars>>

\* a plausible slip: the port is not flushed before the write
SendFlush_noflush ==
    /\ pc = "send"
    /\ txbuff' = FillBuffer(Packet(source, dest, cmd, data))
    /\ pc' = "write"
    /\ UNCHANGED <<source, charSigned, dest, cmd, data, reply, reply0,
                   num_tries, rxbuf, len, packet, pkt, ret, rx, nWrites,
                   nReads, log, lastOp, nFlush, nReadPackets, aReads, wrote,
                   stream, covars>>
    /\ UNCHANGED dropped
    /\ UNCHANGED device

\* sendPacket up to the write: the frame is built and encoded, then
\* tcflush(portFD, TCIOFLUSH) discards what the port holds
SendFlush ==
    /\ pc = "send"
    /\ txbuff' = FillBuffer(Packet(source, dest, cmd, data))
    /\ rx' = <<>>
    /\ pc' = "write"
    /\ UNCHANGED <<source, charSigned, dest, cmd, data, reply, reply0,
                   num_tries, rxbuf, len, packet, pkt, ret, nWrites, nReads,
                   log, covars>>
    /\ lastOp' = "flush"
    /\ nFlush' = nFlush + 1
    /\ aReads' = 0
    /\ stream' = <<>>
    /\ UNCHANGED <<nReadPackets, wrote>>
    /\ dropped' = Len(rx)
    /\ UNCHANGED device

\* tty_write succeeds, sendPacket returns true and readPacket starts with
\* char rxbuf[] = {0}; the device's answer follows what the port still held
WriteOk ==
    /\ pc = "write"
    /\ nWrites' = nWrites + 1
    /\ \E s \in device : rx' = rx \o s
    /\ rxbuf' = 0
    /\ pc' = "hdr"
    /\ UNCHANGED <<source, charSigned, dest, cmd, data, reply, reply0,
                   num_tries, txbuff, len, packet, pkt, ret, nReads, log,
                   covars>>
    /\ lastOp' = "write"
    /\ wrote' = wrote \cup {txbuff}
    /\ nReadPackets' = nReadPackets + 1
    /\ stream' = rx'
    /\ UNCHANGED <<nFlush, aReads>>
    /\ UNCHANGED dropped
    /\ UNCHANGED device

\* a plausible slip: a failed write is retried like a failed read
WriteFail_retry ==
    /\ pc = "write"
    /\ nWrites' = nWrites + 1
    /\ log' = Append(log, Entry("WriteFail", DefaultPacket))
    /\ ScopeExit
    /\ pc' = "loop"
    /\ UNCHANGED <<source, charSigned, dest, cmd, data, reply, reply0,
                   num_tries, ret, rx, nReads, covars>>
    /\ lastOp' = "writefail"
    /\ wrote' = wrote \cup {txbuff}
    /\ UNCHANGED <<nFlush, nReadPackets, aReads, stream>>
    /\ UNCHANGED dropped
    /\ UNCHANGED device

\* a plausible slip: the result of sendPacket is ignored and readPacket
\* is called after a failed write
WriteFail_ignored ==
    /\ pc = "write"
    /\ nWrites' = nWrites + 1
    /\ rxbuf' = 0
    /\ pc' = "hdr"
    /\ lastOp' = "writefail"
    /\ wrote' = wrote \cup {txbuff}
    /\ nReadPackets' = nReadPackets + 1
    /\ stream' = rx
    /\ UNCHANGED <<source, charSigned, dest, cmd, data, reply, reply0,
                   num_tries, txbuff, len, packet, pkt, ret, rx, nReads, log,
                   nFlush, aReads, dropped, device, covars>>

\* tty_write fails: sendPacket returns false and sendCommand returns false
WriteFail ==
    /\ pc = "write"
    /\ nWrites' = nWrites + 1
    /\ log' = Append(log, Entry("WriteFail", DefaultPacket))
    /\ ret' = "false"
    /\ pc' = "done"
    /\ UNCHANGED <<source, charSigned, dest, cmd, data, reply, reply0,
                   num_tries, txbuff, rxbuf, len, packet, pkt, rx, nReads,
                   covars>>
    /\ lastOp' = "writefail"
    /\ wrote' = wrote \cup {txbuff}
    /\ UNCHANGED <<nFlush, nReadPackets, aReads, stream>>
    /\ UNCHANGED dropped
    /\ UNCHANGED device

\* readPacket returned false at `kind`: continue.  (A failed tty_read
\* leaves no byte pending: it timed out on what had arrived.)
ReadPacketFails(kind) ==
    /\ log' = Append(log, Entry(kind, DefaultPacket))
    /\ ScopeExit
    /\ pc' = "loop"

\* a plausible slip: a read error in the header scan ends the exchange
ReadHdrErr_fatal ==
    /\ pc = "hdr"
    /\ nReads' = nReads + 1
    /\ log' = Append(log, Entry("HdrErr", DefaultPacket))
    /\ ret' = "false"
    /\ pc' = "done"
    /\ UNCHANGED <<source, charSigned, dest, cmd, data, reply, reply0,
                   num_tries, txbuff, rxbuf, len, packet, pkt, rx, nWrites,
                   covars>>
    /\ lastOp' = "read"
    /\ aReads' = aReads + 1
    /\ UNCHANGED <<nFlush, nReadPackets, wrote, stream>>
    /\ UNCHANGED dropped
    /\ UNCHANGED device

\* header scan, tty_read of 1 byte fails (a timeout when nothing arrives,
\* or an error of the port): readPacket returns false
ReadHdrErr ==
    /\ pc = "hdr"
    /\ nReads' = nReads + 1
    /\ rx' = <<>>
    /\ ReadPacketFails("HdrErr")
    /\ UNCHANGED <<source, charSigned, dest, cmd, data, reply, reply0,
                   num_tries, ret, nWrites, covars>>
    /\ lastOp' = "read"
    /\ aReads' = aReads + 1
    /\ UNCHANGED <<nFlush, nReadPackets, wrote, stream>>
    /\ UNCHANGED dropped
    /\ UNCHANGED device

\* header scan, tty_read of 1 byte succeeds; the loop ends on AUX_HDR
ReadHdrOk ==
    /\ pc = "hdr"
    /\ rx # <<>>
    /\ nReads' = nReads + 1
    /\ rxbuf' = Head(rx)
    /\ rx' = Tail(rx)
    /\ pc' = IF Head(rx) # AUX_HDR THEN "hdr" ELSE "len"
    /\ UNCHANGED <<source, charSigned, dest, cmd, data, reply, reply0,
                   num_tries, txbuff, len, packet, pkt, ret, nWrites, log,
                   covars>>
    /\ lastOp' = "read"
    /\ aReads' = aReads + 1
    /\ UNCHANGED <<nFlush, nReadPackets, wrote, stream>>
    /\ UNCHANGED dropped
    /\ UNCHANGED device

\* get length, tty_read of 1 byte fails
ReadLenErr ==
    /\ pc = "len"
    /\ nReads' = nReads + 1
    /\ rx' = <<>>
    /\ ReadPacketFails("LenErr")
    /\ UNCHANGED <<source, charSigned, dest, cmd, data, reply, reply0,
                   num_tries, ret, nWrites, covars>>
    /\ lastOp' = "read"
    /\ aReads' = aReads + 1
    /\ UNCHANGED <<nFlush, nReadPackets, wrote, stream>>
    /\ UNCHANGED dropped
    /\ UNCHANGED device

\* get length: int len = rxbuf[0]; packet = {AUX_HDR, len}
ReadLenOk ==
    /\ pc = "len"
    /\ rx # <<>>
    /\ nReads' = nReads + 1
    /\ rxbuf' = Head(rx)
    /\ rx' = Tail(rx)
    /\ len' = CharToInt(Head(rx))
    /\ packet' = <<AUX_HDR, CharToInt(Head(rx)) % 256>>
    /\ pc' = "body"
    /\ UNCHANGED <<source, charSigned, dest, cmd, data, reply, reply0,
                   num_tries, txbuff, pkt, ret, nWrites, log, covars>>
    /\ lastOp' = "read"
    /\ aReads' = aReads + 1
    /\ UNCHANGED <<nFlush, nReadPackets, wrote, stream>>
    /\ UNCHANGED dropped
    /\ UNCHANGED device

\* get source, destination, command, data and checksum: tty_read of
\* len + 1 bytes fails (fewer bytes arrive in time, the port reports an
\* error, or the count is not positive)
ReadBodyErr ==
    /\ pc = "body"
    /\ nReads' = nReads + 1
    /\ rx' = <<>>
    /\ ReadPacketFails("BodyErr")
    /\ UNCHANGED <<source, charSigned, dest, cmd, data, reply, reply0,
                   num_tries, ret, nWrites, covars>>
    /\ lastOp' = "read"
    /\ aReads' = aReads + 1
    /\ UNCHANGED <<nFlush, nReadPackets, wrote, stream>>
    /\ UNCHANGED dropped
    /\ UNCHANGED device

\* the buffer readPacket hands to Parse once len + 1 bytes were read
Assembled == packet \o SubSeq(rx, 1, len + 1)

\* the body is read and reply.Parse(packet) returns false: continue
ReadBodyBad ==
    /\ pc = "body"
    /\ len + 1 >= 1
    /\ Len(rx) >= len + 1
    /\ ~Parse(pkt, Assembled).ok
    /\ nReads' = nReads + 1
    /\ rx' = SubSeq(rx, len + 2, Len(rx))
    /\ ReadPacketFails(Parse(pkt, Assembled).kind)
    /\ UNCHANGED <<source, charSigned, dest, cmd, data, reply, reply0,
                   num_tries, ret, nWrites, covars>>
    /\ lastOp' = "read"
    /\ aReads' = aReads + 1
    /\ UNCHANGED <<nFlush, nReadPackets, wrote, stream>>
    /\ UNCHANGED dropped
    /\ UNCHANGED device

\* the body is read and reply.Parse(packet) returns true
ReadBodyOk ==
    /\ pc = "body"
    /\ len + 1 >= 1
    /\ Len(rx) >= len + 1
    /\ Parse(pkt, Assembled).ok
    /\ nReads' = nReads + 1
    /\ rx' = SubSeq(rx, len + 2, Len(rx))
    /\ packet' = Assembled
    /\ pkt' = Parse(pkt, Assembled).pkt
    /\ pc' = "check"
    /\ UNCHANGED <<source, charSigned, dest, cmd, data, reply, reply0,
                   num_tries, txbuff, rxbuf, len, ret, nWrites, log, covars>>
    /\ lastOp' = "read"
    /\ aReads' = aReads + 1
    /\ UNCHANGED <<nFlush, nReadPackets, wrote, stream>>
    /\ UNCHANGED dropped
    /\ UNCHANGED device

\* check the packet is the one we want:
\* pkt.command != cmd || pkt.destination != Target::APP || pkt.source != dest
WrongPacket(p) ==
    \/ p.command # cmd
    \/ p.destination # APP
    \/ p.source # dest

\* wrong packet, try again: continue
CheckReject ==
    /\ pc = "check"
    /\ WrongPacket(pkt)
    /\ log' = Append(log, Entry("Valid", pkt))
    /\ ScopeExit
    /\ pc' = "loop"
    /\ UNCHANGED <<source, charSigned, dest, cmd, data, reply, reply0,
                   num_tries, ret, rx, nWrites, nReads, covars>>
    /\ UNCHANGED <<lastOp, nFlush, nReadPackets, aReads, wrote, stream>>
    /\ UNCHANGED dropped
    /\ UNCHANGED device

\* reply = pkt.data; return true
CheckAccept ==
    /\ pc = "check"
    /\ ~WrongPacket(pkt)
    /\ log' = Append(log, Entry("Valid", pkt))
    /\ reply' = pkt.data
    /\ ret' = "true"
    /\ pc' = "done"
    /\ UNCHANGED <<source, charSigned, dest, cmd, data, reply0, num_tries,
                   txbuff, rxbuf, len, packet, pkt, rx, nWrites, nReads,
                   covars>>
    /\ UNCHANGED <<lastOp, nFlush, nReadPackets, aReads, wrote, stream>>
    /\ UNCHANGED dropped
    /\ UNCHANGED device

Next ==
    \/ Call
    \/ LoopEnter
    \/ LoopExit
    \/ SendFlush
    \/ WriteOk
    \/ WriteFail
    \/ ReadHdrErr
    \/ ReadHdrOk
    \/ ReadLenErr
    \/ ReadLenOk
    \/ ReadBodyErr
    \/ ReadBodyBad
    \/ ReadBodyOk
    \/ CheckReject
    \/ CheckAccept

Spec == Init /\ [][Next]_vars

\* the steps of a call that is under way
Step ==
    \/ LoopEnter
    \/ LoopExit
    \/ SendFlush
    \/ WriteOk
    \/ WriteFail
    \/ ReadHdrErr
    \/ ReadHdrOk
    \/ ReadLenErr
    \/ ReadLenOk
    \/ ReadBodyErr
    \/ ReadBodyBad
    \/ ReadBodyOk
    \/ CheckReject
    \/ CheckAccept

\* the answers of a device that covers every way an attempt can end
LiveStreams ==
    SampleFrames
    \cup {Garbage(k) \o f : k \in 1..MaxGarbage, f \in SampleFrames}
    \cup {BadSum(f) : f \in SampleFrames}
    \cup {<<AUX_HDR, 2, FOCUSER, APP, MC_GET_POSITION>>,
          <<AUX_HDR, 4, FOCUSER>>, <<AUX_HDR>>, <<>>}

LiveInit ==
    /\ source \in Sources
    /\ charSigned = FALSE
    /\ device = LiveStreams
    /\ pc = "idle"
    /\ dest = FOCUSER
    /\ cmd = MC_GET_POSITION
    /\ data = <<>>
    /\ reply = <<>>
    /\ reply0 = <<>>
    /\ num_tries = 0
    /\ txbuff = <<>>
    /\ rxbuf = 0
    /\ len = 0
    /\ packet = <<>>
    /\ pkt = DefaultPacket
    /\ ret = "none"
    /\ rx = <<>>
    /\ nWrites = 0
    /\ nReads = 0
    /\ log = <<>>
    /\ lastOp = "none"
    /\ nFlush = 0
    /\ nReadPackets = 0
    /\ aReads = 0
    /\ wrote = {}
    /\ stream = <<>>
    /\ dropped = 0
    /\ CodecIdle

\* the exchange when every call of the transport returns: the calling
\* thread always takes its next step
FairSpec == LiveInit /\ [][Next]_vars /\ WF_vars(Step)

(***************************************************************************)
(* The codec applied to bounded inputs                                     *)
(***************************************************************************)
\* all byte sequences over S of at most n bytes
Seqs(S, n) == UNION {[1..k -> S] : k \in 0..n}

\* the bytes short payloads are made of
PayloadBytes == {0, AUX_HDR, 255}
\* the bytes raw buffers are made of; 3B 03 00 00 00 FD is a valid frame
RawBytes == {AUX_HDR, 0, 3, 253}
\* the values a byte of an encoded frame is replaced by
TamperBytes == {0, 3, 4, AUX_HDR, 255}
\* payloads around the largest one the length byte can describe
LongPayloads ==
    {[i \in 1..n |-> i % 256] :
        n \in (WireMaxPayload - 1)..(WireMaxPayload + Oversize)}

CodecInit ==
    /\ source = NEX_REMOTE
    /\ charSigned = FALSE
    /\ device = {}
    /\ pc = "idle"
    /\ dest = FOCUSER
    /\ cmd = MC_GET_POSITION
    /\ data = <<>>
    /\ reply = <<>>
    /\ reply0 = <<>>
    /\ num_tries = 0
    /\ txbuff = <<>>
    /\ rxbuf = 0
    /\ len = 0
    /\ packet = <<>>
    /\ pkt = DefaultPacket
    /\ ret = "none"
    /\ rx = <<>>
    /\ nWrites = 0
    /\ nReads = 0
    /\ log = <<>>
    /\ lastOp = "none"
    /\ nFlush = 0
    /\ nReadPackets = 0
    /\ aReads = 0
    /\ wrote = {}
    /\ stream = <<>>
    /\ dropped = 0
    /\ CodecIdle

\* the frames that are encoded
Frames ==
    {Packet(s, d, c, p) :
        s \in {APP, NEX_REMOTE}, d \in {FOCUSER, APP}, c \in Commands,
        p \in Seqs(PayloadBytes, MaxLen)}
    \cup {Packet(APP, FOCUSER, c, p) : c \in Commands, p \in LongPayloads}

\* Packet pkt(source, destination, command, data)
Construct ==
    /\ cstep = "new"
    /\ \E f \in Frames : frame' = f
    /\ buff' = <<>>
    /\ parsed' = NoParse
    /\ cstep' = "built"
    /\ origin' = "none"
    /\ tamperAt' = Unset
    /\ UNCHANGED exvars

\* pkt.FillBuffer(buff)
Fill ==
    /\ cstep = "built"
    /\ buff' = FillBuffer(frame)
    /\ cstep' = "filled"
    /\ origin' = "filled"
    /\ UNCHANGED <<frame, parsed, tamperAt, exvars>>

\* one byte of the encoded frame is replaced by a different value
Tamper ==
    /\ cstep = "filled"
    /\ \E i \in 0..(Len(buff) - 1), v \in TamperBytes :
        /\ buff[i + 1] # v
        /\ buff' = [buff EXCEPT ![i + 1] = v]
        /\ tamperAt' = i
    /\ cstep' = "tampered"
    /\ origin' = "tampered"
    /\ UNCHANGED <<frame, parsed, exvars>>

\* a buffer that is not the encoding of a frame
Raw ==
    /\ cstep = "new"
    /\ \E b \in Seqs(RawBytes, MaxRaw) : buff' = b
    /\ cstep' = "raw"
    /\ origin' = "raw"
    /\ UNCHANGED <<frame, parsed, tamperAt, exvars>>

\* Packet reply; reply.Parse(buff)
ParseStep ==
    /\ cstep \in {"filled", "tampered", "raw"}
    /\ parsed' = Parse(DefaultPacket, buff)
    /\ cstep' = "parsed"
    /\ UNCHANGED <<frame, buff, origin, tamperAt, exvars>>

CodecNext ==
    \/ Construct
    \/ Fill
    \/ Tamper
    \/ Raw
    \/ ParseStep

CodecSpec == CodecInit /\ [][CodecNext]_vars

(***************************************************************************)
(* Notions of the specification used by the properties                     *)
(***************************************************************************)
\* sendCommand has returned
Returned == pc = "done"

\* the reply a finished attempt saw was structurally bad or failed its checksum
Malformed(e) == e.rp \in {"TooShort", "LengthMismatch", "ChecksumMismatch"}

\* the attempt ended in a transport read error
ReadError(e) == e.rp \in {"HdrErr", "LenErr", "BodyErr"}

\* a decoded reply that is not the answer to this call: wrong command, not
\* addressed to this Communicator, or not sent by the commanded endpoint
Misdirected(e) ==
    /\ e.rp = "Valid"
    /\ \/ e.command # cmd
       \/ e.destination # source
       \/ e.source # dest

\* a decoded reply that is the answer to this call
Acceptable(e) ==
    /\ e.rp = "Valid"
    /\ e.command = cmd
    /\ e.destination = source
    /\ e.source = dest

(***************************************************************************)
(* Properties of the exchange                                              *)
(***************************************************************************)

\* C1: sendCommand returns success only if the reply it accepted decoded
\* checksum-valid and has command = cmd, source = dest and destination =
\* the Communicator's own source, whatever that source is.
C1_AcceptsOnlyOwnReplies ==
    (Returned /\ ret = "true") =>
        /\ ParseKind(packet) = "Valid"
        /\ pkt.command = cmd
        /\ pkt.source = dest
        /\ pkt.destination = source

\* C2: when every attempt of a call ended with a malformed or misdirected
\* reply (no write failure, no read error), sendCommand has reported
\* failure after exactly 3 writes.
C2_ThreeBadRepliesExhaust ==
    (Returned /\ log # <<>>
       /\ \A i \in 1..Len(log) : Malformed(log[i]) \/ Misdirected(log[i])) =>
        /\ ret = "false"
        /\ Len(log) = 3
        /\ nWrites = 3

\* C3: a failed write ends the exchange at once with failure: the call has
\* returned false, the failed write is the last transport operation of the
\* call, and a failure of the first write leaves 1 write and 0 reads.
C3_WriteFailureIsFatal ==
    (log # <<>> /\ Last(log).rp = "WriteFail") =>
        /\ Returned
        /\ ret = "false"
        /\ nWrites = Len(log)
        /\ (Len(log) = 1 => nWrites = 1 /\ nReads = 0)

\* C3 witness: the second write of a call failed after a first attempt
\* that read a reply
C3_Witness ==
    /\ Returned
    /\ Len(log) = 2
    /\ log[2].rp = "WriteFail"
    /\ nWrites = 2
    /\ nReads > 0

\* C4: if the first reply read is valid, addressed to this Communicator,
\* from the commanded endpoint and carries the requested command, it is
\* accepted on the first attempt (1 write) and the payload returned is the
\* payload bytes of that frame.
C4_FirstValidReplyAccepted ==
    (log # <<>> /\ Acceptable(log[1])) =>
        /\ Returned
        /\ ret = "true"
        /\ nWrites = 1
        /\ reply = SubSeq(packet, 6, Len(packet) - 1)

C6_RetryUntilAcceptable ==
    (log # <<>> /\ Acceptable(Last(log))
       /\ \A i \in 1..(Len(log) - 1) :
            ReadError(log[i]) \/ Malformed(log[i]) \/ Misdirected(log[i])) =>
        /\ Returned
        /\ ret = "true"
        /\ reply = SubSeq(packet, 6, Len(packet) - 1)
        /\ nWrites = Len(log)

(***************************************************************************)
(* Properties of the codec                                                 *)
(***************************************************************************)
\* an encoded frame was decoded unchanged
DecodedEncoding == cstep = "parsed" /\ origin = "filled"

\* Decode returned the frame that was encoded, checksum-valid
SameFrame ==
    /\ parsed.ok
    /\ parsed.pkt.source = frame.source
    /\ parsed.pkt.destination = frame.destination
    /\ parsed.pkt.command = frame.command
    /\ parsed.pkt.data = frame.data

\* C7 as stated: decoding the encoding of a frame gives the frame back,
\* checksum-valid, for every payload size.
C7_RoundTripAnySize == DecodedEncoding => SameFrame

\* C7 as amended: decoding the encoding of a frame gives the frame back,
\* checksum-valid, for every payload of at most 252 bytes.
C7_RoundTrip ==
    (DecodedEncoding /\ Len(frame.data) <= WireMaxPayload) => SameFrame

\* C7 witness: a frame with the largest payload made the round trip
C7_Witness ==
    /\ DecodedEncoding
    /\ Len(frame.data) = WireMaxPayload
    /\ parsed.pkt.data = frame.data

\* C8: Decode applies its checks in order and stops at the first violated
\* one: too short, then bad header, then length mismatch, then the
\* checksum; it reports valid exactly when none is violated.
C8_CheckOrder ==
    cstep = "parsed" =>
        LET short == Len(buff) < 6
            badhdr == buff[1] # AUX_HDR
            badlen == Len(buff) # buff[2] + 3
            badsum == checksum(buff) # buff[Len(buff)]
        IN  /\ short => parsed.kind = "TooShort"
            /\ (~short /\ badhdr) => parsed.kind = "BadHeader"
            /\ (~short /\ ~badhdr /\ badlen) => parsed.kind = "LengthMismatch"
            /\ (~short /\ ~badhdr /\ ~badlen) =>
                   /\ parsed.kind \in {"ChecksumMismatch", "Valid"}
                   /\ (parsed.kind = "Valid") <=> ~badsum
            /\ parsed.ok <=> (~short /\ ~badhdr /\ ~badlen /\ ~badsum)

\* C8 witness: a buffer with a wrong header byte and a wrong length byte
\* was rejected for its header
C8_Witness ==
    /\ cstep = "parsed"
    /\ Len(buff) >= 6
    /\ buff[1] # AUX_HDR
    /\ Len(buff) # buff[2] + 3
    /\ parsed.kind = "BadHeader"

\* a byte of a valid encoded frame was replaced at an offset of lo..length+1
\* and the buffer was decoded
TamperedFrom(lo) ==
    /\ cstep = "parsed"
    /\ origin = "tampered"
    /\ Len(frame.data) <= WireMaxPayload
    /\ tamperAt >= lo
    /\ tamperAt <= frame.length + 1

\* C9 as stated: replacing any byte at an offset in 1..length+1 changes the
\* computed checksum and makes Decode fail its checksum comparison.
C9_AnyCoveredByteDetected ==
    TamperedFrom(1) =>
        /\ parsed.kind = "ChecksumMismatch"
        /\ parsed.cs # parsed.cb

\* C9 as amended: replacing any byte at an offset in 2..length+1 changes
\* the computed checksum and makes Decode fail its checksum comparison;
\* replacing the length byte at offset 1 makes Decode fail its length
\* check, before any checksum is computed.
C9_CoveredByteDetected ==
    /\ TamperedFrom(2) =>
        /\ parsed.kind = "ChecksumMismatch"
        /\ parsed.cs # parsed.cb
        /\ parsed.cb = FillBuffer(frame)[frame.length + 3]
    /\ (TamperedFrom(1) /\ tamperAt = 1) =>
        /\ parsed.kind = "LengthMismatch"
        /\ parsed.cs = Unset

\* C9 witness: the last payload byte of a frame was replaced and Decode
\* failed the checksum comparison
C9_Witness ==
    /\ TamperedFrom(2)
    /\ Len(frame.data) > 0
    /\ tamperAt = frame.length + 1
    /\ parsed.kind = "ChecksumMismatch"

\* the buffer of an n-byte payload, laid out as the wire format says
Layout(n, lengthByte) ==
    /\ Len(buff) = n + 6
    /\ buff[1] = AUX_HDR
    /\ buff[2] = lengthByte
    /\ buff[3] = frame.source
    /\ buff[4] = frame.destination
    /\ buff[5] = frame.command
    /\ \A i \in 1..n : buff[5 + i] = frame.data[i]
    /\ buff[n + 6] = (256 - (SumBytes(buff, 1, n + 4) % 256)) % 256

\* C10 as stated: Encode of an n-byte payload gives n + 6 bytes: 0x3B,
\* n + 3, source, destination, command, the payload in order, checksum.
C10_LayoutAnySize ==
    cstep = "filled" => Layout(Len(frame.data), Len(frame.data) + 3)

\* C10 as amended: that layout, for every payload of at most 252 bytes.
C10_Layout ==
    (cstep = "filled" /\ Len(frame.data) <= WireMaxPayload) =>
        Layout(Len(frame.data), Len(frame.data) + 3)

\* C10 witness: a frame with a 2-byte payload was encoded into 8 bytes
C10_Witness ==
    /\ cstep = "filled"
    /\ Len(frame.data) = 2
    /\ Len(buff) = 8
    /\ buff[2] = 5

(***************************************************************************)
(* Further properties of the codec and of the exchange                     *)
(***************************************************************************)

\* C11: the checksum is (0 - s) mod 256, s the sum of the bytes at offsets
\* 1 .. byte 1 + 1; Encode stores that value in the final byte and Decode
\* computes the same value; source 0x20, destination 0x12, command 0x01
\* and no payload encode to 3B 03 20 12 01 CA.
C11_ChecksumIsNegatedSum ==
    /\ cstep = "filled" =>
        /\ buff[Len(buff)] \in 0..255
        /\ (SumBytes(buff, 1, buff[2] + 1) + buff[Len(buff)]) % 256 = 0
    /\ (cstep = "parsed" /\ parsed.cs # Unset) =>
        /\ parsed.cs \in 0..255
        /\ (SumBytes(buff, 1, buff[2] + 1) + parsed.cs) % 256 = 0
    /\ (cstep = "filled" /\ frame = Packet(32, 18, 1, <<>>)) =>
        buff = <<59, 3, 32, 18, 1, 202>>

\* C11 witness: the frame of the worked example was encoded
C11_Witness ==
    /\ cstep = "filled"
    /\ frame = Packet(32, 18, 1, <<>>)
    /\ buff[6] = 202

\* C12: while sendCommand runs and when it reports failure the caller's
\* reply buffer is as it was before the call; on success it holds the
\* payload of a frame that passed every validation: checksum-valid, the
\* requested command, from the commanded endpoint, addressed to this
\* Communicator.
C12_NoPartialSuccess ==
    /\ ret \in {"none", "false"} => reply = reply0
    /\ ret = "true" =>
        /\ reply = SubSeq(packet, 6, Len(packet) - 1)
        /\ ParseKind(packet) = "Valid"
        /\ Acceptable(Entry("Valid", pkt))

\* C13: a write is only ever issued right after a flush of the port, with
\* nothing pending in the port; every flush is followed by its write
\* before any other transport operation; what readPacket reads is what
\* arrived after the write.
C13_FlushBeforeWrite ==
    /\ pc = "write" => (lastOp = "flush" /\ rx = <<>>)
    /\ nFlush = nWrites + (IF pc = "write" THEN 1 ELSE 0)
    /\ lastOp = "flush" => pc = "write"
    /\ pc \in {"hdr", "len", "body", "check"} => stream \in device

\* C13 witness: a retry is about to write, after a flush that discarded
\* what the rejected first attempt had left in the port
C13_Witness ==
    /\ pc = "write"
    /\ num_tries = 2
    /\ lastOp = "flush"
    /\ nFlush = 2
    /\ nWrites = 1
    /\ dropped > 0
    /\ rx = <<>>

\* C14: readPacket treats the length byte L as an unsigned 8-bit integer:
\* it asks the port for exactly L + 1 further bytes and hands Decode a
\* buffer of exactly L + 3 bytes that starts 0x3B, L; for L < 3 that
\* buffer is rejected as too short.
C14_LengthIsUnsigned ==
    /\ pc = "body" =>
        /\ len + 1 = rxbuf + 1
        /\ packet = <<AUX_HDR, rxbuf>>
        /\ Len(rx) >= rxbuf + 1 =>
            /\ Len(Assembled) = rxbuf + 3
            /\ rxbuf < 3 => Parse(pkt, Assembled).kind = "TooShort"
    /\ pc = "check" =>
        /\ Len(packet) = rxbuf + 3
        /\ packet[1] = AUX_HDR
        /\ packet[2] = rxbuf

RECURSIVE LeadFrom(_, _)
\* how many bytes of st, from the 1-based index i on, come before the
\* first header byte
LeadFrom(st, i) ==
    IF i > Len(st) \/ st[i] = AUX_HDR THEN 0 ELSE 1 + LeadFrom(st, i + 1)

\* the number of leading non-header bytes of the stream
Lead(st) == LeadFrom(st, 1)

\* the stream is some non-header bytes followed by a complete frame
HasFrame(st) ==
    /\ Len(st) >= Lead(st) + 2
    /\ Len(st) >= Lead(st) + st[Lead(st) + 2] + 3

\* that frame, and what follows it in the stream
FrameOf(st) == SubSeq(st, Lead(st) + 1, Lead(st) + st[Lead(st) + 2] + 3)
AfterFrame(st) == SubSeq(st, Lead(st) + st[Lead(st) + 2] + 4, Len(st))

\* C15: when the port delivers k non-header bytes followed by a complete
\* frame, readPacket reads the k bytes one at a time, then exactly the
\* bytes of the frame and nothing after them, in k + 3 reads, and returns
\* what Decode returns for the frame alone.
C15_HeaderScanResync ==
    /\ pc = "hdr" =>
        /\ aReads <= Lead(stream)
        /\ rx = SubSeq(stream, aReads + 1, Len(stream))
    /\ pc = "len" =>
        /\ aReads = Lead(stream) + 1
        /\ rx = SubSeq(stream, aReads + 1, Len(stream))
    /\ (pc = "body" /\ HasFrame(stream)) =>
        /\ aReads = Lead(stream) + 2
        /\ len + 1 = Len(FrameOf(stream)) - 2
        /\ Assembled = FrameOf(stream)
    /\ pc = "check" =>
        /\ HasFrame(stream)
        /\ aReads = Lead(stream) + 3
        /\ packet = FrameOf(stream)
        /\ pkt = Parse(DefaultPacket, FrameOf(stream)).pkt
        /\ Parse(DefaultPacket, FrameOf(stream)).ok
        /\ rx = AfterFrame(stream)
    /\ (pc = "loop" /\ log # <<>> /\ HasFrame(stream)
          /\ ~ReadError(Last(log))) =>
        /\ aReads = Lead(stream) + 3
        /\ Last(log).rp = ParseKind(FrameOf(stream))
        /\ rx = AfterFrame(stream)

\* C16: when every transport call returns, a call of sendCommand that is
\* under way eventually returns; it never issues more than 3 writes, and
\* the header scan reads no further than the first header byte.
C16_Terminates ==
    /\ (pc \notin {"idle", "done"}) ~> (pc = "done" /\ ret \in {"true", "false"})
    /\ [](nWrites <= MaxTries)
    /\ [](pc = "hdr" => aReads <= Lead(stream))

\* C16 witness: a call returned failure after its third write
C16_Witness ==
    /\ Returned
    /\ ret = "false"
    /\ nWrites = MaxTries
    /\ Len(log) = MaxTries
    /\ ~ReadError(Last(log))
    /\ Last(log).rp # "WriteFail"

\* the sum of every byte after the header byte, the final byte included,
\* is 0 modulo 256
ZeroSum(b) == SumBytes(b, 1, Len(b) - 1) % 256 = 0

\* the buffer has a frame's size, header byte and length byte
WellFormed(b) ==
    /\ Len(b) >= 6
    /\ b[1] = AUX_HDR
    /\ Len(b) = b[2] + 3

\* C17 as stated: the bytes of every encoded frame after the header sum to
\* 0 modulo 256, and Decode reports a well-formed buffer checksum-valid
\* exactly when its bytes after the header sum to 0 modulo 256.
C17_ZeroSumAnySize ==
    /\ cstep = "filled" => ZeroSum(buff)
    /\ (cstep = "parsed" /\ WellFormed(buff)) => (parsed.ok <=> ZeroSum(buff))

\* C17 as amended: the same, for the encoded frames whose payload has at
\* most 252 bytes.
C17_ZeroSum ==
    /\ (cstep = "filled" /\ Len(frame.data) <= WireMaxPayload) =>
        ZeroSum(buff)
    /\ (cstep = "parsed" /\ WellFormed(buff)) => (parsed.ok <=> ZeroSum(buff))

\* C17 witness: an encoded frame with a payload was decoded as valid, its
\* bytes summing to 0
C17_Witness ==
    /\ DecodedEncoding
    /\ Len(frame.data) > 0
    /\ parsed.ok
    /\ ZeroSum(buff)

\* C18: the transport operations of a call alternate strictly: a flush
\* comes first or after a read, a write only right after a flush, a read
\* only after a successful write or another read; nothing follows a failed
\* write or an accepted reply; a returned call made 1 to 3 writes, and
\* readPacket was called at most once per successful write.
C18_StrictAlternation ==
    /\ [](pc \in {"hdr", "len", "body"} => lastOp \in {"write", "read"})
    /\ [](Returned => nWrites \in 1..MaxTries)
    /\ [](nReadPackets
            <= nWrites - (IF lastOp = "writefail" THEN 1 ELSE 0))
    /\ [](nReadPackets <= nFlush /\ nWrites <= nFlush)
    /\ [][/\ nFlush' = nFlush + 1 => lastOp \in {"none", "read"}
          /\ nWrites' = nWrites + 1 => lastOp = "flush"
          /\ nReads' = nReads + 1 =>
                (lastOp \in {"write", "read"} /\ ret = "none")
          /\ (lastOp = "writefail" \/ ret = "true") =>
                (pc = "done" /\ pc' = "loop" /\ lastOp' = "none")]_vars

\* C18 witness: a call returned success on its second attempt, after two
\* flushes, two writes and two calls of readPacket
C18_Witness ==
    /\ Returned
    /\ ret = "true"
    /\ nFlush = 2
    /\ nWrites = 2
    /\ nReadPackets = 2
    /\ lastOp = "read"

\* C19: every buffer written in one call is the same buffer, the encoding
\* of the Communicator's source, the call's dest, cmd and data; no step
\* changes the source, and no step of a call changes its dest, cmd or data.
C19_SameFrameEveryAttempt ==
    /\ [](/\ Cardinality(wrote) <= 1
          /\ \A b \in wrote :
                /\ b[3] = source
                /\ b[4] = dest
                /\ b[5] = cmd
                /\ SubSeq(b, 6, Len(b) - 1) = data
                /\ ParseKind(b) = "Valid"
          /\ (pc = "write" /\ wrote # {}) => txbuff \in wrote)
    /\ [][/\ source' = source
          /\ pc \notin {"idle", "done"} =>
                (data' = data /\ dest' = dest /\ cmd' = cmd)]_vars

\* C19 witness: the third write of a call was made, after two rejected
\* replies
C19_Witness ==
    /\ nWrites = 3
    /\ Cardinality(wrote) = 1
    /\ Len(log) = 2
    /\ log[1].rp = "Valid"
    /\ log[2].rp = "ChecksumMismatch"

\* the 0-based offsets the loop of Packet::checksum reads
Covered(b) == 1..(b[2] + 1)

\* C20: where Encode and Decode call the checksum routine, it reads only
\* offsets 1 .. byte 1 + 1, all inside the buffer and none the final
\* byte, and its result is the same whatever the final byte holds.
C20_ChecksumIgnoresFinalByte ==
    /\ cstep = "filled" =>
        LET body == FillBody(frame)
        IN  /\ Covered(body) \subseteq 1..(Len(body) - 2)
            /\ \A v \in TamperBytes :
                 checksum([body EXCEPT ![Len(body)] = v]) = buff[Len(buff)]
    /\ (cstep = "parsed" /\ parsed.cs # Unset) =>
        /\ Covered(buff) \subseteq 1..(Len(buff) - 2)
        /\ \A v \in TamperBytes :
             checksum([buff EXCEPT ![Len(buff)] = v]) = parsed.cs

\* C20 witness: a frame whose final byte had been replaced was decoded as
\* far as the checksum comparison
C20_Witness ==
    /\ cstep = "parsed"
    /\ origin = "tampered"
    /\ tamperAt = Len(buff) - 1
    /\ parsed.cs # Unset
    /\ parsed.cs # parsed.cb

====
